---- MODULE Spec2Model ----
(***************************************************************************)
(* Model of the install command of sc-component-manager                    *)
(* (sc_component_manager_command_install.cpp): Execute, ValidateComponent, *)
(* InstallDependencies and DownloadComponent, run against a knowledge      *)
(* store (component metadata) and a filesystem (staging directories).      *)
(* The recursion Execute -> InstallDependencies -> Execute is modelled by  *)
(* an explicit call stack, one frame per invocation of Execute.            *)
(***************************************************************************)
EXTENDS Naturals, Sequences, FiniteSets, TLC

VARIABLES
  store,      \* the knowledge store: metadata of every component
  disk0,      \* the directories that existed before the first command
  files0,     \* the regular files that existed before the first command
  dirs,       \* filesystem: the directories that exist (resolved paths)
  files,      \* filesystem: the regular files that exist (resolved paths)
  stack,      \* call stack: one frame per running invocation of Execute
  ret,        \* the ExecutionResult returned by the last finished Execute
  crashed,    \* the process ran out of stack (unbounded recursion)
  budget,     \* identifiers the top-level commands may still carry
  failures,   \* number of clones that failed so far
  events,     \* observable history: <<operation, subject, detail>> in program order
  plans,      \* history of the values returned by InstallDependencies
  loaded,     \* the paths handed to ScsLoader::loadScsFile
  topRet      \* history of the values returned by top-level Execute calls

vars == <<store, disk0, files0, dirs, files, stack, ret, crashed, budget, failures,
          events, plans, loaded, topRet>>

-----------------------------------------------------------------------------
(* Bounds of the model *)

\* Frames the call stack can hold before the process dies of stack exhaustion.
MaxDepth == 4
\* Identifiers carried by all top-level commands of one run together (a
\* command without an identifier list counts as one).
MaxIds == 2
\* Clones that fail in one run.
MaxCloneFailures == 1
\* Longest path name the operating system resolves (PATH_MAX, scaled down).
PathMax == 12

-----------------------------------------------------------------------------
(* Strings *)

\* std::string::npos
npos == 1000000

Char(s, i) == SubSeq(s, i + 1, i + 1)

\* s.find(p): index (from 0) of the first occurrence of p in s, or npos
Find(s, p) ==
  LET hits == {i \in 0..Len(s) : i + Len(p) <= Len(s) /\ SubSeq(s, i + 1, i + Len(p)) = p}
  IN IF hits = {} THEN npos ELSE CHOOSE i \in hits : \A k \in hits : i <= k

\* s.rfind(p): index (from 0) of the last occurrence of p in s, or npos
RFind(s, p) ==
  LET hits == {i \in 0..Len(s) : i + Len(p) <= Len(s) /\ SubSeq(s, i + 1, i + Len(p)) = p}
  IN IF hits = {} THEN npos ELSE CHOOSE i \in hits : \A k \in hits : i >= k

\* s.substr(pos)
Substr(s, pos) == SubSeq(s, pos + 1, Len(s))

-----------------------------------------------------------------------------
(* Filesystem: path resolution as stat, mkdir and opendir do it *)

RECURSIVE SplitFrom(_, _, _)
\* The segments of path name s between its '/' characters, from index i on;
\* cur is the segment read so far.
SplitFrom(s, i, cur) ==
  IF i >= Len(s) THEN <<cur>>
  ELSE IF Char(s, i) = "/" THEN <<cur>> \o SplitFrom(s, i + 1, "")
  ELSE SplitFrom(s, i + 1, cur \o Char(s, i))

\* The root directory, and the result of a resolution that fails (ENOENT,
\* ENOTDIR): no path has an empty segment.
Root == <<>>
NoPath == <<"">>

IsDir(p, d) == p = Root \/ p \in d

RECURSIVE Walk(_, _, _)
\* Path resolution from directory `at`: every directory passed through must
\* exist; empty segments and "." name the directory itself, ".." its parent
\* (the root is its own parent). The last segment need not exist.
Walk(segs, at, d) ==
  IF segs = <<>> THEN at
  ELSE IF ~IsDir(at, d) THEN NoPath
  ELSE LET h == Head(segs) IN
       IF h = "" \/ h = "." THEN Walk(Tail(segs), at, d)
       ELSE IF h = ".." THEN Walk(Tail(segs), IF at = Root THEN at ELSE SubSeq(at, 1, Len(at) - 1), d)
       ELSE Walk(Tail(segs), Append(at, h), d)

\* The path (sequence of segments below the root) an absolute name resolves
\* to with directories d on disk, or NoPath.
Resolve(name, d) ==
  CHOOSE p \in {Walk(segs, Root, d) : segs \in {SplitFrom(name, 0, "")}} : TRUE

\* stat(name) == 0
StatOk(name, d, f) ==
  /\ Len(name) < PathMax
  /\ LET p == Resolve(name, d) IN p # NoPath /\ (IsDir(p, d) \/ p \in f)

\* The directory one segment of a path name leads to from directory `at`.
Enter(at, seg) ==
  IF seg = "" \/ seg = "." THEN at
  ELSE IF seg = ".." THEN (IF at = Root THEN at ELSE SubSeq(at, 1, Len(at) - 1))
  ELSE Append(at, seg)

RECURSIVE MkWalk(_, _, _, _, _)
\* g_mkdir_with_parents: the name is read segment by segment (read counts the
\* characters before the segment) and each directory that is missing is made,
\* until a file is in the way or the name read so far is too long. The
\* directories that exist afterwards.
MkWalk(segs, read, at, d, f) ==
  IF segs = <<>> THEN d
  ELSE IF read + Len(Head(segs)) >= PathMax \/ Enter(at, Head(segs)) \in f THEN d
  ELSE MkWalk(Tail(segs), read + Len(Head(segs)) + 1, Enter(at, Head(segs)),
              IF Enter(at, Head(segs)) = Root THEN d ELSE d \cup {Enter(at, Head(segs))}, f)

\* sc_fs_mkdirs(name): the directories that exist afterwards
MkDirs(name, d, f) ==
  UNION {MkWalk(segs, 0, Root, d, f) : segs \in {SplitFrom(name, 0, "")}}

\* opendir(name) != nullptr
OpenDirOk(name, d) ==
  /\ Len(name) < PathMax
  /\ LET p == Resolve(name, d) IN p # NoPath /\ IsDir(p, d)

\* readdir: the names of the entries of an open directory
ReadDir(name, d, f) ==
  {".", ".."} \cup
  UNION {{q[Len(q)] : q \in {q \in d \cup f : Len(q) = Len(p) + 1 /\ SubSeq(q, 1, Len(p)) = p}} :
           p \in {Resolve(name, d)}}

-----------------------------------------------------------------------------
(* The knowledge store *)

Components == {"A", "B", "C"}

\* The identifiers a command may name: the components and one unknown name.
Identifiers == Components \cup {"X"}

\* The invalid (empty) ScAddr
NoAddr == "<empty>"

\* GitHubConstants::GITHUB_PREFIX
GITHUB_PREFIX == "https://github.com/"

\* m_specificationsPath
SpecificationsPath == "/s"

\* context->HelperFindBySystemIdtf(idtf)
HelperFindBySystemIdtf(idtf) == IF idtf \in Components THEN idtf ELSE NoAddr

\* context->HelperGetSystemIdtf(addr)
HelperGetSystemIdtf(addr) == addr

\* componentAddr.IsValid()
IsValid(addr) == addr # NoAddr

\* What the store holds about an address that is no component: nothing.
Absent ==
  [reusable |-> FALSE, address |-> [res |-> "none", content |-> ""],
   method |-> "none", deps |-> [res |-> "ok", list |-> <<>>]]

\* The relations of a node in the store.
Meta(st, c) == IF c \in DOMAIN st THEN st[c] ELSE Absent

\* context->Iterator3(concept_reusable_component, EdgeAccessConstPosPerm, c)->Next()
IsReusable(st, c) == Meta(st, c).reusable

\* try { addr = GetComponentAddress(c) } catch (ScException) {}: the link found,
\* or the empty ScAddr when there is none or the store raised an error.
GetComponentAddressCaught(st, c) ==
  IF Meta(st, c).address.res = "link" THEN "link" ELSE NoAddr

\* context->GetLinkContent(addr, content): the string stays empty when the
\* address is no link.
GetLinkContent(st, c, addr) ==
  IF IsValid(addr) THEN Meta(st, c).address.content ELSE ""

\* try { m = GetComponentInstallationMethod(c) } catch (ScException) {}
GetComponentInstallationMethodCaught(st, c) ==
  IF Meta(st, c).method = "valid" THEN "method" ELSE NoAddr

\* Lines 143-153 with the component itself among the dependencies returned.
GetComponentDependenciesWithSelf(st, c) ==
  <<c>> \o (IF Meta(st, c).deps.res = "ok" THEN Meta(st, c).deps.list ELSE <<>>)

\* Lines 143-153 with the set keeping what was found before the error.
GetComponentDependenciesPartial(st, c) == Meta(st, c).deps.list

\* try { deps = GetComponentDependencies(c) } catch (ScException) {}
GetComponentDependenciesCaught(st, c) ==
  IF Meta(st, c).deps.res = "ok" THEN Meta(st, c).deps.list ELSE <<>>

\* ValidateComponent without the check of lines 80-86.
ValidateComponentNoReusableCheck(st, componentAddr) ==
  IF ~IsValid(componentAddr) THEN FALSE
  ELSE IF GetLinkContent(st, componentAddr, GetComponentAddressCaught(st, componentAddr)) = "" THEN FALSE
  ELSE IF ~IsValid(GetComponentInstallationMethodCaught(st, componentAddr)) THEN FALSE
  ELSE TRUE

\* ValidateComponent(context, componentAddr), lines 70-128
ValidateComponent(st, componentAddr) ==
  IF ~IsValid(componentAddr) THEN FALSE
  ELSE IF ~IsReusable(st, componentAddr) THEN FALSE
  ELSE IF GetLinkContent(st, componentAddr, GetComponentAddressCaught(st, componentAddr)) = "" THEN FALSE
  ELSE IF ~IsValid(GetComponentInstallationMethodCaught(st, componentAddr)) THEN FALSE
  ELSE TRUE

-----------------------------------------------------------------------------
(* The remote repositories and the clone *)

\* The files at the top of every remote repository.
RepoFiles == {"m.scs", "n.scs.txt", "readme.md"}

RECURSIVE StripSlashes(_)
StripSlashes(s) ==
  IF Len(s) > 0 /\ Char(s, Len(s) - 1) = "/" THEN StripSlashes(SubSeq(s, 1, Len(s) - 1)) ELSE s

\* The directory name git clone derives from a repository address: its last
\* segment, without trailing slashes and without a ".git" ending.
Humanish(address) ==
  LET a == StripSlashes(address)
      b == IF Len(a) >= 4 /\ Substr(a, Len(a) - 4) = ".git" THEN SubSeq(a, 1, Len(a) - 4) ELSE a
      k == RFind(b, "/")
  IN IF k = npos THEN b ELSE Substr(b, k + 1)

\* The directory "cd dirName && git clone address" clones into.
CloneTarget(dirName, address, d) == Append(Resolve(dirName, d), Humanish(address))

\* The clone can run: cd succeeds, the repository name is a directory name
\* and the target is not there yet.
CloneCanRun(dirName, address, d, f) ==
  /\ OpenDirOk(dirName, d)
  /\ Humanish(address) \notin {"", ".", ".."}
  /\ CloneTarget(dirName, address, d) \notin d \cup f

-----------------------------------------------------------------------------
(* The call stack *)

\* The frame of a fresh invocation Execute(context, {identifier: ids})
Frame(ids) ==
  [ids |-> ids, i |-> 1, pc |-> "for", comp |-> NoAddr,
   deps |-> <<>>, j |-> 1, result |-> <<>>,
   content |-> "", index |-> 0, dirName |-> "",
   \* history of this invocation: identifiers validated, components fetched,
   \* and, for the running InstallDependencies, the dependencies it called
   \* Execute for and the results it got back
   validated |-> <<>>, fetched |-> <<>>, calls |-> <<>>, answers |-> <<>>,
   \* the value the last InstallDependencies of this invocation returned
   plan |-> <<>>]

Top == stack[Len(stack)]

Running == stack # <<>> /\ ~crashed

At(pc) == Running /\ Top.pc = pc

\* The stack with its top frame replaced by f
SetTop(f) == [stack EXCEPT ![Len(stack)] = f]

\* The end of one iteration of the loop of Execute: on to the next identifier.
NextIdentifier(f) == [f EXCEPT !.i = f.i + 1, !.pc = "for"]

Log(op, subject, detail) == events' = Append(events, <<op, subject, detail>>)

-----------------------------------------------------------------------------
(* Execute *)

\* Lines 23-36 with the TODO of line 32 carried out: without an identifier
\* list Execute runs over every component instead of returning.
ExecuteNoIdentifierInstallsAll ==
  /\ stack = <<>> /\ ~crashed
  /\ budget >= 1
  /\ budget' = budget - 1
  /\ stack' = <<Frame(<<"A", "B", "C">>)>>
  /\ Log("command", "", "no identifier")
  /\ UNCHANGED <<store, disk0, files0, dirs, files, ret, crashed, failures, plans, loaded, topRet>>

\* Execute, lines 23-36: commandParameters carries no identifier list, at()
\* throws and the empty result is returned at once.
ExecuteNoIdentifier ==
  /\ stack = <<>> /\ ~crashed
  /\ budget >= 1
  /\ budget' = budget - 1
  /\ ret' = <<>>
  /\ topRet' = Append(topRet, <<>>)
  /\ Log("command", "", "no identifier")
  /\ UNCHANGED <<store, disk0, files0, dirs, files, stack, crashed, failures, plans, loaded>>

\* A top-level command Execute(context, {identifier: ids}), lines 23-38.
ExecuteCall ==
  /\ stack = <<>> /\ ~crashed
  /\ \E n \in 1..budget : \E ids \in [1..n -> Identifiers] :
       /\ stack' = <<Frame(ids)>>
       /\ budget' = budget - n
  /\ Log("command", "", "identifiers")
  /\ UNCHANGED <<store, disk0, files0, dirs, files, ret, crashed, failures, plans, loaded, topRet>>

\* Line 47 with `break` for `continue`.
OnInvalidComponentBreak(f) == [f EXCEPT !.i = Len(f.ids) + 1, !.pc = "for"]

\* Line 47 without `continue`: Execute falls through to lines 51-53.
OnInvalidComponentFallThrough(f) == [f EXCEPT !.pc = "deps"]

\* Line 47: what Execute does with its frame when an identifier fails
\* validation: `continue`.
OnInvalidComponent(f) == NextIdentifier(f)

\* Lines 39-49 with a validation that takes the reusable-component mark off
\* the component it accepts.
ExecuteForConsumingMark ==
  /\ At("for") /\ Top.i <= Len(Top.ids)
  /\ LET idtf == Top.ids[Top.i]
         componentAddr == HelperFindBySystemIdtf(idtf)
         seen == [Top EXCEPT !.validated = Append(@, idtf)]
     IN IF ~ValidateComponent(store, componentAddr)
        THEN /\ Log("validate", idtf, "rejected")
             /\ stack' = SetTop(OnInvalidComponent(seen))
             /\ UNCHANGED store
        ELSE /\ Log("validate", idtf, "ok")
             /\ stack' = SetTop([seen EXCEPT !.comp = componentAddr, !.pc = "deps"])
             /\ store' = [store EXCEPT ![componentAddr].reusable = FALSE]
  /\ UNCHANGED <<disk0, files0, dirs, files, ret, crashed, budget, failures, plans, loaded, topRet>>

\* Lines 39-49: one identifier of the loop is resolved and validated.
ExecuteFor ==
  /\ At("for") /\ Top.i <= Len(Top.ids)
  /\ LET idtf == Top.ids[Top.i]
         componentAddr == HelperFindBySystemIdtf(idtf)
         seen == [Top EXCEPT !.validated = Append(@, idtf)]
     IN IF ~ValidateComponent(store, componentAddr)
        THEN /\ Log("validate", idtf, "rejected")
             /\ stack' = SetTop(OnInvalidComponent(seen))
        ELSE /\ Log("validate", idtf, "ok")
             /\ stack' = SetTop([seen EXCEPT !.comp = componentAddr, !.pc = "deps"])
  /\ UNCHANGED <<store, disk0, files0, dirs, files, ret, crashed, budget, failures, plans, loaded, topRet>>

\* Line 58 with every fetched component added to `result` in the loop.
ExecuteResultFetched(f) == f.fetched

\* Line 58: the value Execute returns. Nothing is ever added to `result`.
ExecuteResult(f) == <<>>

\* Line 58: the loop is over; Execute returns
\* to InstallDependencies (line 160) or to the caller of the command.
ExecuteReturn ==
  /\ At("for") /\ Top.i > Len(Top.ids)
  /\ ret' = ExecuteResult(Top)
  /\ stack' = SubSeq(stack, 1, Len(stack) - 1)
  /\ topRet' = IF Len(stack) = 1 THEN Append(topRet, ret') ELSE topRet
  /\ UNCHANGED <<store, disk0, files0, dirs, files, crashed, budget, failures, events, plans, loaded>>

-----------------------------------------------------------------------------
(* InstallDependencies *)

\* Lines 140-153: the dependencies are read from the store.
InstallDependenciesBegin ==
  /\ At("deps")
  /\ stack' = SetTop([Top EXCEPT !.deps = GetComponentDependenciesCaught(store, Top.comp),
                                 !.j = 1, !.result = <<>>, !.pc = "depfor",
                                 !.calls = <<>>, !.answers = <<>>])
  /\ Log("dependencies", Top.comp, "")
  /\ UNCHANGED <<store, disk0, files0, dirs, files, ret, crashed, budget, failures, plans, loaded, topRet>>

\* Lines 155-160: Execute is called for the next dependency. The call needs a
\* stack frame; with none left the process dies.
InstallDependenciesFor ==
  /\ At("depfor") /\ Top.j <= Len(Top.deps)
  /\ LET dependencyIdtf == HelperGetSystemIdtf(Top.deps[Top.j]) IN
       /\ Log("dependency", Top.comp, dependencyIdtf)
       /\ IF Len(stack) >= MaxDepth
          THEN crashed' = TRUE /\ UNCHANGED stack
          ELSE /\ stack' = Append(SetTop([Top EXCEPT !.pc = "check", !.calls = Append(@, dependencyIdtf)]),
                                  Frame(<<dependencyIdtf>>))
               /\ UNCHANGED crashed
  /\ UNCHANGED <<store, disk0, files0, dirs, files, ret, budget, failures, plans, loaded, topRet>>

\* Line 163 with the early return of lines 163-167 left out.
DependencyFailedNever(dependencyResult) == FALSE

\* Line 163: dependencyResult.empty()
DependencyFailed(dependencyResult) == dependencyResult = <<>>

\* Line 168: result.insert(result.cbegin(), dependencyResult...)
InsertFront(result, dependencyResult) == dependencyResult \o result

\* Lines 51-53 with the component skipped when its dependency plan is empty.
AfterDependenciesSkipOnEmpty(f, plan) ==
  IF plan = <<>> THEN NextIdentifier([f EXCEPT !.plan = plan])
  ELSE [f EXCEPT !.pc = "download", !.plan = plan]

\* Lines 51-53: Execute drops the plan InstallDependencies returned and calls
\* DownloadComponent.
AfterDependencies(f, plan) == [f EXCEPT !.pc = "download", !.plan = plan]

\* Lines 163-168: the result of the recursive Execute is inspected. An empty
\* one ends InstallDependencies (line 166); Execute goes on at line 53.
InstallDependenciesCheck ==
  /\ At("check")
  /\ IF DependencyFailed(ret)
     THEN /\ plans' = Append(plans, [comp |-> Top.comp, plan |-> ret])
          /\ stack' = SetTop(AfterDependencies([Top EXCEPT !.answers = Append(@, ret)], ret))
     ELSE /\ stack' = SetTop([Top EXCEPT !.result = InsertFront(Top.result, ret),
                                         !.j = Top.j + 1, !.pc = "depfor",
                                         !.answers = Append(@, ret)])
          /\ UNCHANGED plans
  /\ UNCHANGED <<store, disk0, files0, dirs, files, ret, crashed, budget, failures, events, loaded, topRet>>

\* Line 171: every dependency is done; Execute goes on at line 53.
InstallDependenciesReturn ==
  /\ At("depfor") /\ Top.j > Len(Top.deps)
  /\ plans' = Append(plans, [comp |-> Top.comp, plan |-> Top.result])
  /\ stack' = SetTop(AfterDependencies(Top, Top.result))
  /\ UNCHANGED <<store, disk0, files0, dirs, files, ret, crashed, budget, failures, events, loaded, topRet>>

-----------------------------------------------------------------------------
(* DownloadComponent *)

\* Line 192: the address is one DownloadComponent fetches.
IsGitHubAddress(content) == Find(content, GITHUB_PREFIX) # npos

\* Lines 197, 198, 201, 212: componentAddressContent.substr(componentDirNameIndex)
DirSuffix(f) == Substr(f.content, f.index)

\* Lines 179-198: the address is read; an address without the GitHub prefix
\* ends DownloadComponent, any other starts the naming of the directory.
DownloadComponentBegin ==
  /\ At("download")
  /\ LET content == GetLinkContent(store, Top.comp, GetComponentAddressCaught(store, Top.comp))
         index == RFind(content, "/")
         here == [Top EXCEPT !.fetched = Append(@, Top.comp)]
     IN /\ stack' = IF IsGitHubAddress(content)
                    THEN SetTop([here EXCEPT !.content = content, !.index = index,
                                             !.dirName = SpecificationsPath \o Substr(content, index),
                                             !.pc = "while"])
                    ELSE SetTop(NextIdentifier(here))
        /\ Log("fetch", Top.comp, content)
  /\ UNCHANGED <<store, disk0, files0, dirs, files, ret, crashed, budget, failures, plans, loaded, topRet>>

\* Line 199 with the naming loop left out.
NameTakenNever(componentDirName, d, f) == FALSE

\* Line 199: the condition of the naming loop, stat(componentDirName) == 0
NameTaken(componentDirName, d, f) == StatOk(componentDirName, d, f)

\* Lines 199-202: one turn of the naming loop.
DownloadComponentWhile ==
  /\ At("while") /\ NameTaken(Top.dirName, dirs, files)
  /\ stack' = SetTop([Top EXCEPT !.dirName = Top.dirName \o DirSuffix(Top)])
  /\ Log("rename", Top.comp, Top.dirName)
  /\ UNCHANGED <<store, disk0, files0, dirs, files, ret, crashed, budget, failures, plans, loaded, topRet>>

\* Line 203: the naming loop is over, sc_fs_mkdirs(componentDirName).
DownloadComponentMkdirs ==
  /\ At("while") /\ ~NameTaken(Top.dirName, dirs, files)
  /\ dirs' = MkDirs(Top.dirName, dirs, files)
  /\ stack' = SetTop([Top EXCEPT !.pc = "clone"])
  /\ Log("mkdirs", Top.comp, Top.dirName)
  /\ UNCHANGED <<store, disk0, files0, files, ret, crashed, budget, failures, plans, loaded, topRet>>

\* Line 205: cd componentDirName && git clone address. The exit status is not
\* read; the clone may fail (no network, no such repository) and leave nothing.
DownloadComponentClone ==
  /\ At("clone")
  /\ \E ok \in {TRUE} \cup {b \in {FALSE} : failures < MaxCloneFailures} :
       IF ok /\ CloneCanRun(Top.dirName, Top.content, dirs, files)
       THEN /\ \E t \in {CloneTarget(Top.dirName, Top.content, dirs)} :
                 /\ dirs' = dirs \cup {t, Append(t, ".git")}
                 /\ files' = files \cup {Append(t, n) : n \in RepoFiles}
            /\ Log("clone", Top.comp, Top.dirName)
            /\ UNCHANGED failures
       ELSE /\ UNCHANGED <<dirs, files>>
            /\ failures' = IF ok THEN failures ELSE failures + 1
            /\ Log("clone failed", Top.comp, Top.dirName)
  /\ stack' = SetTop([Top EXCEPT !.pc = "load"])
  /\ UNCHANGED <<store, disk0, files0, ret, crashed, budget, plans, loaded, topRet>>

\* Line 218: filename.rfind(".scs") != npos
IsScsFile(filename) == RFind(filename, ".scs") # npos

\* Lines 212-224: the cloned directory is listed and its .scs entries loaded.
DownloadComponentLoad ==
  /\ At("load")
  /\ \E componentDirName \in {Top.dirName \o DirSuffix(Top)} :
       /\ loaded' = IF OpenDirOk(componentDirName, dirs)
                    THEN loaded \cup {componentDirName \o "/" \o filename :
                                        filename \in {n \in ReadDir(componentDirName, dirs, files) : IsScsFile(n)}}
                    ELSE loaded
       /\ Log("load", Top.comp, componentDirName)
  /\ stack' = SetTop(NextIdentifier(Top))
  /\ UNCHANGED <<store, disk0, files0, dirs, files, ret, crashed, budget, failures, plans, topRet>>

-----------------------------------------------------------------------------
(* The stores and disks a run starts from *)

\* The remote address of each component's repository.
AddressOf == [c \in Components |->
  IF c = "A" THEN "https://github.com/o/a"
  ELSE IF c = "B" THEN "https://github.com/o/b" ELSE "https://github.com/o/c"]

Link(content) == [res |-> "link", content |-> content]

\* The metadata of an installable component.
Installable(content, list) ==
  [reusable |-> TRUE, address |-> Link(content), method |-> "valid",
   deps |-> [res |-> "ok", list |-> list]]

\* The dependency lists a component c may have: up to two other components.
DepLists(c) ==
  LET others == Components \ {c} IN
  {<<>>} \cup {<<x>> : x \in others} \cup {p \in others \X others : p[1] # p[2]}

\* The dependency graphs: every component depends on up to two others, and
\* only A on two (chains, forks and cycles over the three components).
Graphs ==
  {d \in [Components -> UNION {DepLists(c) : c \in Components}] :
     /\ \A c \in Components : d[c] \in DepLists(c)
     /\ \A c \in Components \ {"A"} : Len(d[c]) <= 1}

\* Every dependency graph, all components installable.
GraphStores ==
  {[c \in Components |-> Installable(AddressOf[c], d[c])] : d \in Graphs}

\* What the store may hold as the address of a component.
Addresses ==
  {[res |-> "throws", content |-> ""], [res |-> "none", content |-> ""],
   Link(""), Link("https://github.com/o/a"), Link("https://gitlab.com/o/a")}

\* Every metadata of component A; B depends on A and on C.
MetaStores ==
  {[c \in Components |->
      IF c = "A" THEN [reusable |-> r, address |-> a, method |-> m, deps |-> d]
      ELSE IF c = "B" THEN Installable(AddressOf[c], <<"A", "C">>)
      ELSE Installable(AddressOf[c], <<>>)] :
     r \in BOOLEAN, a \in Addresses, m \in {"valid", "none", "throws"},
     d \in {[res |-> "ok", list |-> <<>>], [res |-> "throws", list |-> <<"C">>]}}

\* The repository addresses of the fetch scenarios.
FetchAddresses ==
  {"https://github.com/o/a", "https://github.com/o/a/", "https://github.com/o/a.git",
   "https://github.com/o/..", "https://gitlab.com/o/a", "ssh://h/https://github.com/a"}

\* No dependencies; A's address varies, B's repository has the name of A's.
FetchStores ==
  {[c \in Components |->
      IF c = "A" THEN Installable(a, <<>>)
      ELSE IF c = "B" THEN Installable("https://github.com/p/a", <<>>)
      ELSE Installable(AddressOf[c], <<>>)] : a \in FetchAddresses}

\* A disk without the staging path, with one directory and a source file in
\* it beside the place of the staging path.
FetchDiskWithFile == {<<"etc">>}
FetchFiles == {<<"k.scs">>}

\* The directories that may exist before the first command: the staging path
\* and directories below it, or FetchDiskWithFile.
FetchDisks ==
  {{}, {<<"s">>}, {<<"s">>, <<"s", "a">>}, {<<"s">>, <<"s", "a">>, <<"s", "a", "a">>},
   FetchDiskWithFile}

Init ==
  /\ \/ store \in GraphStores /\ dirs = {}
     \/ store \in MetaStores /\ dirs = {}
     \/ store \in FetchStores /\ dirs \in FetchDisks
  /\ files = IF dirs = FetchDiskWithFile THEN FetchFiles ELSE {}
  /\ disk0 = dirs
  /\ files0 = files
  /\ stack = <<>>
  /\ ret = <<>>
  /\ crashed = FALSE
  /\ budget = MaxIds
  /\ failures = 0
  /\ events = <<>>
  /\ plans = <<>>
  /\ loaded = {}
  /\ topRet = <<>>

Next ==
  \/ ExecuteNoIdentifier
  \/ ExecuteCall
  \/ ExecuteFor
  \/ ExecuteReturn
  \/ InstallDependenciesBegin
  \/ InstallDependenciesFor
  \/ InstallDependenciesCheck
  \/ InstallDependenciesReturn
  \/ DownloadComponentBegin
  \/ DownloadComponentWhile
  \/ DownloadComponentMkdirs
  \/ DownloadComponentClone
  \/ DownloadComponentLoad

Spec == Init /\ [][Next]_vars

\* A step of a command that is running: every action but the arrival of a
\* command.
ExecuteStep ==
  \/ ExecuteFor
  \/ ExecuteReturn
  \/ InstallDependenciesBegin
  \/ InstallDependenciesFor
  \/ InstallDependenciesCheck
  \/ InstallDependenciesReturn
  \/ DownloadComponentBegin
  \/ DownloadComponentWhile
  \/ DownloadComponentMkdirs
  \/ DownloadComponentClone
  \/ DownloadComponentLoad

\* Execute runs in one thread and blocks on nothing but the calls it makes:
\* a command that is running takes its next step. Commands need not arrive.
LiveSpec == Init /\ [][Next]_vars /\ WF_vars(ExecuteStep)

-----------------------------------------------------------------------------
(* Vocabulary of the properties *)

Range(q) == {q[k] : k \in DOMAIN q}

\* The component has the reusable tag, a non-empty address link and an
\* installation method, each found without a store error.
HasMetadata(c) ==
  /\ c \in Components
  /\ store[c].reusable
  /\ store[c].address.res = "link" /\ store[c].address.content # ""
  /\ store[c].method = "valid"

\* The dependencies the store returns for c.
DepsOf(c) == IF store[c].deps.res = "ok" THEN Range(store[c].deps.list) ELSE {}

RECURSIVE Closure(_)
\* S and everything S depends on, directly or not.
Closure(S) ==
  LET T == S \cup UNION {DepsOf(c) : c \in S} IN IF T = S THEN S ELSE Closure(T)

\* Everything c depends on, directly or not.
AllDepsOf(c) == Closure(DepsOf(c))

\* c heads a dependency chain: c and all it depends on are installable, each
\* has at most one dependency, and none depends on itself.
Chain(c) ==
  \A x \in Closure({c}) :
    HasMetadata(x) /\ Cardinality(DepsOf(x)) <= 1 /\ x \notin AllDepsOf(x)

\* The places of the history where DownloadComponent was entered for c.
FetchesOf(c) == {k \in DOMAIN events : events[k][1] = "fetch" /\ events[k][2] = c}

-----------------------------------------------------------------------------
(* C1 *)

\* C1: for a component c at the head of a dependency chain (c depends on b, b
\* on a, all installable), a and then b are fetched before c is fetched, and
\* the plan InstallDependencies produces for c lists a and b.
C1_ChainPlanListsDependencies ==
  /\ \A n \in DOMAIN events :
       (events[n][1] = "fetch" /\ Chain(events[n][2])) =>
         /\ \A d \in AllDepsOf(events[n][2]) : \E m \in FetchesOf(d) : m < n
         /\ \A d \in AllDepsOf(events[n][2]) : \A e \in AllDepsOf(d) :
              \E m1 \in FetchesOf(e), m2 \in FetchesOf(d) : m1 < m2 /\ m2 < n
  /\ \A k \in DOMAIN plans :
       Chain(plans[k].comp) =>
         \A d \in AllDepsOf(plans[k].comp) : d \in Range(plans[k].plan)

\* The ordering half of C1 alone.
ChainFetchedInOrder ==
  \A n \in DOMAIN events :
    (events[n][1] = "fetch" /\ Chain(events[n][2])) =>
      /\ \A d \in AllDepsOf(events[n][2]) : \E m \in FetchesOf(d) : m < n
      /\ \A d \in AllDepsOf(events[n][2]) : \A e \in AllDepsOf(d) :
           \E m1 \in FetchesOf(e), m2 \in FetchesOf(d) : m1 < m2 /\ m2 < n

-----------------------------------------------------------------------------
(* C2 *)

\* DownloadComponent ran for d and no clone of d failed.
Installed(d) ==
  /\ FetchesOf(d) # {}
  /\ \A k \in DOMAIN events : ~(events[k][1] = "clone failed" /\ events[k][2] = d)

\* C2: when InstallDependencies returns for a component whose dependencies
\* are all installable and were all installed, the plan it returns is not
\* empty and holds the identifier of each of them.
C2_PlanHoldsInstalledDependencies ==
  \A n \in DOMAIN stack :
    LET f == stack[n] IN
      ( /\ f.pc = "download"
        /\ f.deps # <<>>
        /\ \A d \in Range(f.deps) : HasMetadata(d) /\ Installed(d) )
      => (f.plan # <<>> /\ \A d \in Range(f.deps) : HelperGetSystemIdtf(d) \in Range(f.plan))

-----------------------------------------------------------------------------
(* C3 *)

\* C3: once the recursive install of a dependency has returned an empty plan,
\* InstallDependencies has called Execute for no later dependency of the
\* list, has left its loop and has returned the empty plan.
C3_EmptyPlanAbortsDependencies ==
  \A n \in DOMAIN stack :
    LET f == stack[n] IN
      \A k \in DOMAIN f.answers :
        f.answers[k] = <<>> =>
          /\ Len(f.calls) = k
          /\ f.calls = SubSeq(f.deps, 1, k)
          /\ f.pc \notin {"depfor", "check"}
          /\ f.plan = <<>>

\* An InstallDependencies over two dependencies has returned after the first.
C3_Witness ==
  \E n \in DOMAIN stack :
    /\ Len(stack[n].deps) = 2
    /\ stack[n].answers = << <<>> >>
    /\ stack[n].calls = <<stack[n].deps[1]>>
    /\ stack[n].pc = "download"

-----------------------------------------------------------------------------
(* C4 *)

\* C4: a dependency cycle is detected: Execute never starts resolving a
\* component that an invocation below it on the stack is still resolving, and
\* the process never runs out of stack.
C4_CycleIsDetected ==
  /\ ~crashed
  /\ \A m \in DOMAIN stack : \A n \in DOMAIN stack :
       (m < n /\ stack[m].pc = "check" /\ stack[n].pc # "for") =>
         stack[n].comp # stack[m].comp

-----------------------------------------------------------------------------
(* C5 *)

\* C5: ValidateComponent accepts a component exactly when its reference is
\* valid, it has the reusable tag, its address link has content and its
\* installation method is valid; a store error during the lookup of the
\* address or of the method counts as the item being absent.
C5_ValidateIffMetadata ==
  \A k \in DOMAIN events :
    events[k][1] = "validate" => (events[k][3] = "ok" <=> HasMetadata(events[k][2]))

\* One component was accepted, and one whose address lookup raised a store
\* error, its other metadata present, was rejected.
C5_Witness ==
  /\ \E k \in DOMAIN events : events[k][1] = "validate" /\ events[k][3] = "ok"
  /\ \E k \in DOMAIN events :
       /\ events[k][1] = "validate" /\ events[k][3] = "rejected"
       /\ events[k][2] \in Components
       /\ store[events[k][2]].reusable
       /\ store[events[k][2]].address.res = "throws"
       /\ store[events[k][2]].method = "valid"

-----------------------------------------------------------------------------
(* C6 *)

\* Every identifier validated so far resolves to no component.
OnlyUnknownIdentifiers ==
  \A k \in DOMAIN events : events[k][1] = "validate" => events[k][2] \notin Components

\* C6: as long as the identifiers handed to Execute resolve to no component,
\* Execute returns empty plans and changes nothing: no dependency install, no
\* directory, no clone, no file loaded.
C6_UnknownIdentifierChangesNothing ==
  OnlyUnknownIdentifiers =>
    /\ dirs = disk0 /\ files = files0 /\ loaded = {} /\ plans = <<>>
    /\ \A k \in DOMAIN topRet : topRet[k] = <<>>
    /\ \A k \in DOMAIN events : events[k][1] \in {"command", "validate"}
    /\ \A k \in DOMAIN events : events[k][1] = "validate" => events[k][3] = "rejected"

\* A command naming only an unknown identifier has returned.
C6_Witness ==
  /\ OnlyUnknownIdentifiers
  /\ \E k \in DOMAIN events : events[k] = <<"validate", "X", "rejected">>
  /\ stack = <<>> /\ topRet # <<>>

-----------------------------------------------------------------------------
(* C7 *)

\* C7: when Execute is about to return, it has validated every identifier of
\* its list and has fetched, in order, each one that is installable, whatever
\* identifiers before it failed validation.
C7_InvalidIdentifierDoesNotStopRequest ==
  \A n \in DOMAIN stack :
    LET f == stack[n] IN
      (f.pc = "for" /\ f.i > Len(f.ids)) =>
        /\ f.validated = f.ids
        /\ f.fetched = SelectSeq(f.ids, HasMetadata)

\* A request of two identifiers, the first rejected, the second installed.
C7_Witness ==
  /\ Len(stack) = 1
  /\ Top.pc = "for" /\ Top.i > Len(Top.ids)
  /\ Len(Top.ids) = 2
  /\ ~HasMetadata(Top.ids[1]) /\ HasMetadata(Top.ids[2])
  /\ Top.fetched = <<Top.ids[2]>>
  /\ \E k \in DOMAIN events : events[k][1] = "load" /\ events[k][2] = Top.ids[2]

-----------------------------------------------------------------------------
(* C8 *)

\* C8: the naming loop ends because it reached a name that does not exist:
\* the name it ends on is one the operating system still resolves, whatever
\* the address and the directories on disk.
C8_NamingLoopReachesFreeName ==
  \A n \in DOMAIN stack :
    stack[n].pc = "clone" => Len(stack[n].dirName) < PathMax

-----------------------------------------------------------------------------
(* C9 *)

\* Path p is q or lies below q.
Within(p, q) == Len(q) <= Len(p) /\ SubSeq(p, 1, Len(q)) = q

\* The places of the history where a staging directory was made for c.
StagingsOf(c) == {k \in DOMAIN events : events[k][1] = "mkdirs" /\ events[k][2] = c}

\* C9: of two installs of one component, the second stages into a directory
\* that is neither the first one's staging directory nor inside its tree.
C9_SecondInstallOutsideFirst ==
  \A c \in Components : \A k \in StagingsOf(c) : \A l \in StagingsOf(c) :
    k < l => ~Within(Resolve(events[l][3], dirs), Resolve(events[k][3], dirs))

-----------------------------------------------------------------------------
(* C10 *)

\* The name denotes something on disk: a path the operating system resolves
\* to an existing directory or file.
OnDisk(name) ==
  /\ Len(name) < PathMax
  /\ Resolve(name, dirs) = Root \/ Resolve(name, dirs) \in dirs \cup files

\* C10: the name with which the naming loop ends, the one handed to
\* sc_fs_mkdirs, is never the name of something that exists on disk.
C10_ChosenNameIsFree ==
  [][(At("while") /\ ~At("while")') => ~OnDisk(Top.dirName)]_vars

\* A staging directory was made under a name the loop had to extend.
C10_Witness ==
  /\ At("clone")
  /\ Top.dirName # SpecificationsPath \o DirSuffix(Top)
  /\ Resolve(Top.dirName, dirs) \in dirs \ disk0
  /\ \E k \in DOMAIN events : events[k] = <<"rename", Top.comp, SpecificationsPath \o DirSuffix(Top)>>


(***************************************************************************)
(* C11: an address that does not start with the prefix is not fetched      *)
(***************************************************************************)

StartsWith(s, p) == Len(s) >= Len(p) /\ SubSeq(s, 1, Len(p)) = p

EndsWith(s, p) == Len(s) >= Len(p) /\ SubSeq(s, Len(s) - Len(p) + 1, Len(s)) = p

\* The steps of a fetch that touch the filesystem, the network or the store.
FetchSteps == {"rename", "mkdirs", "clone", "clone failed", "load"}

\* C11: when the address of a component does not start with GITHUB_PREFIX,
\* its fetch is a no-op: no staging name is sought, no directory is created,
\* no clone is run and no file is loaded for it.
C11_OtherAddressIsNotFetched ==
  \A k \in DOMAIN events :
    (events[k][1] \in FetchSteps /\ HasMetadata(events[k][2]))
      => StartsWith(store[events[k][2]].address.content, GITHUB_PREFIX)

(***************************************************************************)
(* C12: only the entries whose name ends in .scs are loaded                *)
(***************************************************************************)

LastEvent == events[Len(events)]

\* C12: right after the load step of a fetch, an entry of the directory that
\* was read has been passed to the loader if and only if its name ends in
\* ".scs".
C12_LoadedIffNameEndsInScs ==
  (events # <<>> /\ LastEvent[1] = "load" /\ OpenDirOk(LastEvent[3], dirs))
    => \A n \in ReadDir(LastEvent[3], dirs, files) :
         (LastEvent[3] \o "/" \o n) \in loaded <=> EndsWith(n, ".scs")

(***************************************************************************)
(* C13: a component without dependencies is fetched without recursion      *)
(***************************************************************************)

\* The frame holds the outcome of InstallDependencies for its component f.comp.
PastDependencies(f) == f.comp # NoAddr /\ f.pc \in {"download", "while", "clone", "load", "for"}

\* The component c has been through its fetch, and through the load step when
\* its address is one that is fetched.
FetchCarriedOut(c) ==
  /\ \E k \in DOMAIN events : events[k][1] = "fetch" /\ events[k][2] = c
  /\ IsGitHubAddress(store[c].address.content)
       => \E k \in DOMAIN events : events[k][1] = "load" /\ events[k][2] = c

NoDependencies(c) == store[c].deps = [res |-> "ok", list |-> <<>>]

\* C13: for a valid component whose dependency set is empty, no recursive
\* Execute is called, the dependency plan is empty, and when Execute moves on
\* the component's own fetch and load have been carried out.
C13_NoDependenciesNoRecursion ==
  \A n \in DOMAIN stack :
    LET f == stack[n] IN
    (f.comp # NoAddr /\ f.pc # "deps" /\ NoDependencies(f.comp)) =>
      /\ f.calls = <<>> /\ f.answers = <<>>
      /\ f.pc # "check"
      /\ PastDependencies(f) => f.plan = <<>>
      /\ f.pc = "for" => (f.fetched # <<>> /\ f.fetched[Len(f.fetched)] = f.comp
                          /\ FetchCarriedOut(f.comp))

C13_Witness ==
  /\ stack # <<>> /\ Top.pc = "for" /\ Top.comp # NoAddr
  /\ NoDependencies(Top.comp)
  /\ Top.calls = <<>> /\ Top.plan = <<>>
  /\ \E p \in loaded : \E k \in DOMAIN events :
       events[k][1] = "load" /\ events[k][2] = Top.comp /\ StartsWith(p, events[k][3])

(***************************************************************************)
(* C14: a command without an identifier list does nothing                  *)
(***************************************************************************)

\* The positions in the history of the top-level commands, in order.
CommandAt(k) == k \in DOMAIN events /\ events[k][1] = "command"

CommandsUpTo(k) == Cardinality({m \in 1..k : CommandAt(m)})

\* C14: a command whose parameters carry no identifier list returns the empty
\* plan and does nothing else: the next thing that happens, if anything, is
\* the next command, and neither the disk nor the loader has been touched when
\* no other kind of command has run.
C14_NoIdentifierDoesNothing ==
  /\ \A k \in DOMAIN events :
       events[k] = <<"command", "", "no identifier">> =>
         /\ k < Len(events) => CommandAt(k + 1)
         /\ k = Len(events) => stack = <<>>
         /\ CommandsUpTo(k) \in DOMAIN topRet /\ topRet[CommandsUpTo(k)] = <<>>
  /\ (\A k \in DOMAIN events : events[k] = <<"command", "", "no identifier">>)
       => (dirs = disk0 /\ files = files0 /\ loaded = {} /\ plans = <<>>)

C14_Witness ==
  /\ Len(events) >= 2
  /\ events[1] = <<"command", "", "no identifier">>
  /\ events[2] = <<"command", "", "identifiers">>
  /\ Len(topRet) >= 1

(***************************************************************************)
(* C15: validation reads only, and validating again gives the same answer  *)
(***************************************************************************)

\* The step is a run of ValidateComponent: it adds a validate event.
ValidateStep ==
  /\ Len(events') = Len(events) + 1
  /\ events'[Len(events')][1] = "validate"

\* C15: a run of ValidateComponent changes neither the store nor the
\* filesystem nor what has been loaded, and its answer is the answer every
\* earlier validation of the same identifier gave in this run.
C15_ValidateReadsOnly ==
  [][ValidateStep =>
       /\ UNCHANGED <<store, dirs, files, loaded>>
       /\ \A k \in DOMAIN events :
            (events[k][1] = "validate" /\ events[k][2] = events'[Len(events')][2])
              => events[k][3] = events'[Len(events')][3]]_vars

\* The same identifier has been accepted twice, with its install in between.
C15_Witness ==
  \E k, m \in DOMAIN events :
    /\ k < m /\ events[k][1] = "validate" /\ events[m][1] = "validate"
    /\ events[k][2] = events[m][2] /\ events[k][3] = "ok" /\ events[m][3] = "ok"
    /\ \E l \in k..m : events[l][1] = "load" /\ events[l][2] = events[k][2]
    /\ loaded # {}

(***************************************************************************)
(* C16: a component is fetched after all of its valid dependencies         *)
(***************************************************************************)

\* The component d has been fetched before position n of the history.
FetchedBefore(d, n) == \E m \in 1..(n - 1) : events[m][1] = "fetch" /\ events[m][2] = d

\* C16: whenever a component is fetched, every one of its dependencies that
\* passes validation has been fetched before.
C16_FetchedAfterEveryDependency ==
  \A n \in DOMAIN events :
    (events[n][1] = "fetch" /\ HasMetadata(events[n][2])) =>
      \A d \in DepsOf(events[n][2]) :
        ValidateComponent(store, d) => FetchedBefore(d, n)

\* The part of C16 the code keeps: the first dependency of a component, when
\* valid and not the component itself, is fetched before the component is.
FirstDependencyFetchedFirst ==
  \A n \in DOMAIN events :
    (events[n][1] = "fetch" /\ HasMetadata(events[n][2])) =>
      LET list == GetComponentDependenciesCaught(store, events[n][2]) IN
      (list # <<>> /\ ValidateComponent(store, list[1]))
        => FetchedBefore(list[1], n)

(***************************************************************************)
(* C17: a fetch whose clone failed loads nothing                           *)
(***************************************************************************)

\* The running fetch is at its load step and its clone created nothing.
LoadAfterFailedClone ==
  At("load") /\ events # <<>> /\ LastEvent = <<"clone failed", Top.comp, Top.dirName>>

\* C17: the load step of a fetch whose clone failed passes no file to the
\* loader.
C17_FailedCloneLoadsNothing ==
  [][LoadAfterFailedClone => loaded' = loaded]_vars

\* The part of C17 the code keeps: when the address ends in a name that is not
\* "..", the load step after a failed clone loads nothing.
FailedCloneOfNamedRepositoryLoadsNothing ==
  [][(LoadAfterFailedClone /\ DirSuffix(Top) # "/..") => loaded' = loaded]_vars

(***************************************************************************)
(* C18: an error while the dependencies are read is swallowed              *)
(***************************************************************************)

DependenciesThrow(c) == store[c].deps.res = "throws"

\* C18: when the store raises an error while the dependency set of a valid
\* component is read, nothing propagates: InstallDependencies goes on with an
\* empty set, calls Execute for nothing and returns the empty plan, the process
\* lives, and when Execute moves on the component's own fetch has been carried
\* out.
C18_DependencyErrorIsSwallowed ==
  \A n \in DOMAIN stack :
    LET f == stack[n] IN
    (f.comp # NoAddr /\ f.pc # "deps" /\ DependenciesThrow(f.comp)) =>
      /\ f.deps = <<>> /\ f.calls = <<>> /\ f.answers = <<>>
      /\ f.pc # "check" /\ n = Len(stack) /\ ~crashed
      /\ PastDependencies(f) => f.plan = <<>>
      /\ f.pc = "for" => (f.fetched # <<>> /\ f.fetched[Len(f.fetched)] = f.comp
                          /\ FetchCarriedOut(f.comp))

C18_Witness ==
  /\ stack # <<>> /\ Top.pc = "for" /\ Top.comp # NoAddr
  /\ DependenciesThrow(Top.comp)
  /\ \E k \in DOMAIN events : events[k] = <<"dependencies", Top.comp, "">>
  /\ \E k \in DOMAIN events : events[k][1] = "load" /\ events[k][2] = Top.comp
  /\ loaded # {}

(***************************************************************************)
(* C19: Execute returns the empty plan whatever it did                     *)
(***************************************************************************)

\* C19: every value Execute has returned, to the caller of a command or to
\* InstallDependencies, is the empty plan.
C19_ExecuteReturnsEmpty ==
  /\ ret = <<>>
  /\ \A k \in DOMAIN topRet : topRet[k] = <<>>
  /\ \A n \in DOMAIN stack : \A k \in DOMAIN stack[n].answers : stack[n].answers[k] = <<>>

\* Two commands have returned: the first rejected its only identifier, the
\* second installed its component and loaded a file of it.
C19_Witness ==
  /\ stack = <<>> /\ Len(topRet) = 2
  /\ Len(events) > 3
  /\ events[2][1] = "validate" /\ events[2][3] = "rejected"
  /\ events[3][1] = "command"
  /\ \E k \in DOMAIN events : events[k][1] = "load" /\ loaded # {}

(***************************************************************************)
(* C20: on an acyclic dependency graph Execute terminates                  *)
(***************************************************************************)

\* No component depends on itself, directly or not.
Acyclic == \A c \in Components : c \notin AllDepsOf(c)

Max(S) == CHOOSE x \in S : \A y \in S : y <= x

RECURSIVE PathFrom(_, _)
\* The number of edges of the longest dependency path that starts at c and
\* visits no component of the set seen, nor any component twice.
PathFrom(c, seen) ==
  LET next == DepsOf(c) \ (seen \cup {c}) IN
  IF next = {} THEN 0 ELSE 1 + Max({PathFrom(d, seen \cup {c}) : d \in next})

\* The number of edges of the longest dependency path that starts at c.
LongestPath(c) == PathFrom(c, {})

\* The nested Execute calls are no deeper than the longest dependency path
\* from the requested component, plus one.
DepthWithinLongestPath ==
  /\ ~crashed
  /\ Len(stack) >= 2 => Len(stack) <= LongestPath(stack[1].comp) + 1

\* C20: when the dependency graph of the store is acyclic, the depth of nested
\* Execute calls never exceeds the longest dependency path from the requested
\* component plus one, and every command that has started returns.
C20_AcyclicInstallTerminates ==
  /\ [](Acyclic => DepthWithinLongestPath)
  /\ (Acyclic /\ stack # <<>>) ~> (stack = <<>>)

\* A command on an acyclic store has returned after its Execute calls were
\* nested as deep as the longest path allows, three frames for a chain of
\* three components.
C20_Witness ==
  /\ Acyclic /\ stack = <<>> /\ topRet # <<>>
  /\ \E c \in Components :
       /\ LongestPath(c) = 2
       /\ Len(events) >= 2 /\ events[2] = <<"validate", c, "ok">>
       /\ \E d \in DepsOf(c) : \E e \in DepsOf(d) :
            \E k \in DOMAIN events : events[k] = <<"dependency", d, e>>

====
